---- MODULE Spec2Model ----
(***************************************************************************)
(* c_function_sweeper (src/src/main.rs): the run of `main` over the        *)
(* discovered files, `parse_file`, the recursive `find_function_stats`     *)
(* walk as an explicit call stack, and the report loop.                    *)
(*                                                                         *)
(* A syntax tree is a sequence of nodes indexed by node id (root = 1).     *)
(* Each node carries its kind, the field name under which it hangs off     *)
(* its parent, the text of its byte span and the ids of its children,      *)
(* left to right.  The tree-sitter parser is outside the repository: the   *)
(* tree it returns for a file is an input, drawn when the file is read.    *)
(***************************************************************************)
EXTENDS Naturals, Sequences, FiniteSets, Bags, TLC

\* ------------------------------------------------------------------ bounds
\* Largest syntax tree (in nodes) of the file given directly as --path.
MaxNodes == 4
\* Largest syntax tree (in nodes) of each file found in a directory.
MaxDirNodes == 3

\* ------------------------------------------------------------------ inputs
Names == {"main", "foo"}
\* What Node::utf8_text returns Err for.
Undecodable == "<invalid utf-8>"
Kinds == {"function_declarator", "call_expression", "identifier"}
NoNode == 0

\* The one source file of a --path that is a file, and the entries of a
\* --path that is a directory.
SingleFile == [stem |-> "a", ext |-> "c"]
DirEntries == {[stem |-> "a", ext |-> "c"], [stem |-> "b", ext |-> "h"]}
PathKinds == {"dir", "file", "other_file", "unreadable_dir", "missing"}

\* The field a parent of the given kind is asked for.
FieldOf(kind) ==
    IF kind = "function_declarator" THEN "declarator"
    ELSE IF kind = "call_expression" THEN "function"
    ELSE ""

\* Labels of a node below the root: a node is either no field of its parent
\* or the named field, with the text of its span.
Labels ==
    [kind : Kinds, field : {""}, text : {""}]
        \cup [kind : Kinds, field : {"declarator", "function"}, text : Names]

RECURSIVE Ancestors(_, _)
Ancestors(par, i) == IF i = 1 THEN {1} ELSE {i} \cup Ancestors(par, par[i])

\* Parent maps of the trees with n nodes whose ids follow source order.
Shapes(n) ==
    {par \in [2..n -> 1..n] : \A i \in 2..n : par[i] \in Ancestors(par, i - 1)}

RECURSIVE SortSet(_)
SortSet(S) ==
    IF S = {} THEN <<>>
    ELSE LET m == CHOOSE x \in S : \A y \in S : x <= y
         IN  <<m>> \o SortSet(S \ {m})

MkTree(n, par, lab) ==
    [i \in 1..n |->
        [kind     |-> IF i = 1 THEN "translation_unit" ELSE lab[i].kind,
         field    |-> IF i = 1 THEN "" ELSE lab[i].field,
         text     |-> IF i = 1 THEN "" ELSE lab[i].text,
         children |-> SortSet({j \in 2..n : par[j] = i})]]

\* A field name only occurs under a parent that has that field.
WellLabelled(n, par, lab) ==
    \A i \in 2..n :
        lab[i].field # "" =>
            /\ par[i] # 1
            /\ lab[i].field = FieldOf(lab[par[i]].kind)

TreesOfSize(n) ==
    {MkTree(n, sl[1], sl[2]) :
        sl \in {x \in Shapes(n) \X [2..n -> Labels] :
                    WellLabelled(n, x[1], x[2])}}

\* The syntax trees a file can parse to, by number of nodes.
FileTrees == [n \in 1..MaxNodes |-> TreesOfSize(n)]
DirTrees == [n \in 1..MaxDirNodes |-> TreesOfSize(n)]

\* The same tree with the spans of some nodes not valid UTF-8.
Corrupt(t, bad) ==
    [i \in 1..Len(t) |->
        IF i \in bad /\ t[i].field # ""
        THEN [t[i] EXCEPT !.text = Undecodable]
        ELSE t[i]]

\* ------------------------------------------------------------------- state
VARIABLES
    path_kind,       \* what --path names (args.path, fixed for the run)
    entries,         \* directory entries (or the single file) not yet yielded
    function_stats,  \* HashMap<String, FunctionStats>
    pc,              \* "start", "scan", "walk", "report", "done", "panicked"
    path,            \* file being walked
    tree,            \* its syntax tree
    stack,           \* active find_function_stats calls: node and next child
    pending,         \* registry keys the report loop has not yet yielded
    out,             \* stdout: one record per reported heading
    err,             \* stderr: one record per diagnostic
    visited,         \* instrumentation: nodes entered in the current file
    expected,        \* instrumentation: sites of the nodes of the files walked
    run,             \* 1, or 2 once the program has been started again
    disk,            \* instrumentation: how each file read so far fared,
                     \* with what it held when the program is run again
    first            \* registry and output of the first run

vars == <<path_kind, entries, function_stats, pc, path, tree, stack, pending,
          out, err, visited, expected, run, disk, first>>

NoPath == [stem |-> "", ext |-> ""]
NoStats == <<>>
NoExpected == [n \in Names |-> [declarations |-> {}, calls |-> {}]]

\* struct FunctionStats, #[derive(Default)]
DefaultStats == [declarations |-> <<>>, calls |-> <<>>]

\* ------------------------------------------------- the tree provider's API
\* A plausible slip: the walk does not go below a node it has matched.
ChildrenUnlessMatched(t, n) ==
    IF t[n].kind \in {"function_declarator", "call_expression"}
    THEN <<>>
    ELSE t[n].children

\* node.children(&mut node.walk())
Children(t, n) == t[n].children

\* Node::child_by_field_name: the first child under that field, or None.
ChildByFieldName(t, n, fname) ==
    LET cs == t[n].children
        hits == {i \in 1..Len(cs) : t[cs[i]].field = fname}
    IN  IF hits = {} THEN NoNode
        ELSE cs[CHOOSE i \in hits : \A j \in hits : i <= j]

\* Node::utf8_text: Ok(text) unless the span is not valid UTF-8.
Utf8Ok(t, n) == t[n].text # Undecodable
Utf8Text(t, n) == t[n].text

\* Node::start_position: nodes are numbered in source order, one per row.
StartRow(n) == n - 1
StartColumn(n) == 2 * n

SiteOf(p, n) == <<p, StartRow(n), StartColumn(n)>>

\* ------------------------------------------------------------ the registry
\* A plausible slip: insert(name, Default::default()) instead of or_default().
EntryAlwaysDefault(fs, name) ==
    [x \in DOMAIN fs \cup {name} |-> IF x = name THEN DefaultStats ELSE fs[x]]

\* function_stats.entry(name).or_default()
EntryOrDefault(fs, name) ==
    IF name \in DOMAIN fs THEN fs ELSE fs @@ (name :> DefaultStats)

\* A plausible slip: the declaration replaces the ones recorded so far.
PushDeclarationReplaces(fs, name, site) ==
    [EntryOrDefault(fs, name) EXCEPT ![name].declarations = <<site>>]

PushDeclaration(fs, name, site) ==
    [EntryOrDefault(fs, name) EXCEPT ![name].declarations = Append(@, site)]

\* A plausible slip: the key is created and the call site is not pushed.
PushCallKeyOnly(fs, name, site) == EntryOrDefault(fs, name)

PushCall(fs, name, site) ==
    [EntryOrDefault(fs, name) EXCEPT ![name].calls = Append(@, site)]

\* The match of find_function_stats on one node.
Extract(t, n, p, fs) ==
    IF t[n].kind = "function_declarator"
    THEN LET d == ChildByFieldName(t, n, "declarator")
         IN  IF d = NoNode THEN fs
             ELSE PushDeclaration(fs, Utf8Text(t, d), SiteOf(p, d))
    ELSE IF t[n].kind = "call_expression"
    THEN LET f == ChildByFieldName(t, n, "function")
         IN  IF f = NoNode THEN fs
             ELSE PushCall(fs, Utf8Text(t, f), SiteOf(p, f))
    ELSE fs

\* utf8_text(source).unwrap() on an Err
Panics(t, n) ==
    \/ /\ t[n].kind = "function_declarator"
       /\ ChildByFieldName(t, n, "declarator") # NoNode
       /\ ~Utf8Ok(t, ChildByFieldName(t, n, "declarator"))
    \/ /\ t[n].kind = "call_expression"
       /\ ChildByFieldName(t, n, "function") # NoNode
       /\ ~Utf8Ok(t, ChildByFieldName(t, n, "function"))

\* is_source_or_header_file
IsSourceOrHeaderFile(p) == p.ext = "c" \/ p.ext = "h"

\* ---------------------------------------------------------- instrumentation
DeclNodes(t, name) ==
    {n \in 1..Len(t) :
        /\ t[n].kind = "function_declarator"
        /\ \E c \in 1..Len(t) :
              /\ c = ChildByFieldName(t, n, "declarator")
              /\ t[c].text = name}

CallNodes(t, name) ==
    {n \in 1..Len(t) :
        /\ t[n].kind = "call_expression"
        /\ \E c \in 1..Len(t) :
              /\ c = ChildByFieldName(t, n, "function")
              /\ t[c].text = name}

Expect(e, p, t) ==
    [name \in Names |->
        [declarations |-> e[name].declarations
            \cup {SiteOf(p, ChildByFieldName(t, n, "declarator")) :
                     n \in DeclNodes(t, name)},
         calls |-> e[name].calls
            \cup {SiteOf(p, ChildByFieldName(t, n, "function")) :
                     n \in CallNodes(t, name)}]]

RECURSIVE PreorderFrom(_, _, _)
RECURSIVE Preorder(_, _)
\* Pre-order of the subtrees rooted at cs[i], cs[i+1], ...
PreorderFrom(t, cs, i) ==
    IF i > Len(cs) THEN <<>>
    ELSE Preorder(t, cs[i]) \o PreorderFrom(t, cs, i + 1)
Preorder(t, n) == <<n>> \o PreorderFrom(t, t[n].children, 1)

\* ------------------------------------------------------------------ report
\* A plausible slip: an off-by-one in the test for no calls.
UnusedLinesAtMostOneCall(name, stats) ==
    IF Len(stats.calls) <= 1
    THEN <<[category |-> "Unused", name |-> name,
            positions |-> stats.declarations]>>
    ELSE <<>>

UnusedLines(name, stats) ==
    IF Len(stats.calls) = 0
    THEN <<[category |-> "Unused", name |-> name,
            positions |-> stats.declarations]>>
    ELSE <<>>

\* A plausible slip: the threshold is one declaration instead of two.
UndeclaredLinesNoDeclaration(name, stats) ==
    IF Len(stats.declarations) < 1
    THEN <<[category |-> "Undeclared", name |-> name,
            positions |-> stats.declarations]>>
    ELSE <<>>

UndeclaredLines(name, stats) ==
    IF Len(stats.declarations) < 2
    THEN <<[category |-> "Undeclared", name |-> name,
            positions |-> stats.declarations]>>
    ELSE <<>>

\* A plausible slip: `main` is not skipped.
ReportLinesNoSkip(name, stats) ==
    UnusedLines(name, stats) \o UndeclaredLines(name, stats)

\* One iteration of the loop that prints the function stats.
ReportLines(name, stats) ==
    IF name = "main" THEN <<>>
    ELSE UnusedLines(name, stats) \o UndeclaredLines(name, stats)

\* -------------------------------------------------------------------- main
EntriesOf(kind) ==
    IF kind = "dir" THEN DirEntries
    ELSE IF kind = "file" THEN {SingleFile}
    ELSE IF kind = "other_file" THEN {[stem |-> "notes", ext |-> "txt"]}
    ELSE {}

\* A fresh process: the registry is created empty, nothing is printed yet.
Fresh(kind) ==
    /\ path_kind = kind
    /\ entries = EntriesOf(kind)
    /\ function_stats = NoStats
    /\ pc = "start"
    /\ path = NoPath
    /\ tree = <<>>
    /\ stack = <<>>
    /\ pending = {}
    /\ out = <<>>
    /\ err = <<>>
    /\ visited = <<>>
    /\ expected = NoExpected

Init ==
    /\ \E kind \in PathKinds : Fresh(kind)
    /\ run = 1
    /\ disk = <<>>
    /\ first = [stats |-> NoStats, out |-> <<>>]

\* main, lines 46-84: which branch the path takes.
Start ==
    /\ pc = "start"
    /\ pc' = "scan"
    /\ err' = IF path_kind = "unreadable_dir"
                THEN Append(err, [msg |-> "Could not read directory",
                                  path |-> NoPath])
              ELSE IF path_kind = "missing"
                THEN Append(err, [msg |-> "neither a file nor a directory",
                                  path |-> NoPath])
              ELSE err
    /\ UNCHANGED <<path_kind, entries, function_stats, path, tree, stack,
                   pending, out, visited, expected, run, disk, first>>

\* An entry that is_source_or_header_file rejects.
SkipEntry(p) ==
    /\ pc = "scan"
    /\ p \in entries
    /\ ~IsSourceOrHeaderFile(p)
    /\ entries' = entries \ {p}
    /\ err' = IF path_kind = "other_file"
                THEN Append(err, [msg |-> "not a C source or header file",
                                  path |-> p])
              ELSE err
    /\ UNCHANGED <<path_kind, function_stats, pc, path, tree, stack, pending,
                   out, visited, expected, run, disk, first>>

\* A plausible slip: read_to_string(path).unwrap()
ReadFailsPanics(p, c) ==
    /\ pc = "scan"
    /\ p \in entries
    /\ IsSourceOrHeaderFile(p)
    /\ c.status = "unreadable"
    /\ entries' = entries \ {p}
    /\ pc' = "panicked"
    /\ UNCHANGED <<path_kind, function_stats, path, tree, stack, pending,
                   out, err, visited, expected, run, first>>

\* parse_file when fs::read_to_string fails.
ReadFails(p, c) ==
    /\ pc = "scan"
    /\ p \in entries
    /\ IsSourceOrHeaderFile(p)
    /\ c.status = "unreadable"
    /\ entries' = entries \ {p}
    /\ err' = Append(err, [msg |-> "Could not read file", path |-> p])
    /\ UNCHANGED <<path_kind, function_stats, pc, path, tree, stack, pending,
                   out, visited, expected, run, first>>

\* A plausible slip: parser.parse(..).unwrap()
ParseFailsPanics(p, c) ==
    /\ pc = "scan"
    /\ p \in entries
    /\ IsSourceOrHeaderFile(p)
    /\ c.status = "unparsable"
    /\ entries' = entries \ {p}
    /\ pc' = "panicked"
    /\ UNCHANGED <<path_kind, function_stats, path, tree, stack, pending,
                   out, err, visited, expected, run, first>>

\* parse_file when parser.parse returns None.
ParseFails(p, c) ==
    /\ pc = "scan"
    /\ p \in entries
    /\ IsSourceOrHeaderFile(p)
    /\ c.status = "unparsable"
    /\ entries' = entries \ {p}
    /\ err' = Append(err, [msg |-> "Could not parse file", path |-> p])
    /\ UNCHANGED <<path_kind, function_stats, pc, path, tree, stack, pending,
                   out, visited, expected, run, first>>

\* Entry of find_function_stats(n, ...): the match, then the loop over the
\* children starts.  stk is the stack of the callers.
CallFind(t, n, p, stk, vis) ==
    /\ visited' = Append(vis, n)
    /\ IF Panics(t, n)
       THEN /\ pc' = "panicked"
            /\ function_stats' = function_stats
            /\ stack' = stk
       ELSE /\ pc' = "walk"
            /\ function_stats' = Extract(t, n, p, function_stats)
            /\ stack' = Append(stk, [node |-> n, next |-> 1])

\* parse_file on a file that reads and parses: the walk starts at the root.
WalkFile(p, c) ==
    /\ pc = "scan"
    /\ p \in entries
    /\ IsSourceOrHeaderFile(p)
    /\ c.status = "ok"
    /\ entries' = entries \ {p}
    /\ path' = p
    /\ tree' = c.tree
    /\ expected' = Expect(expected, p, c.tree)
    /\ CallFind(c.tree, 1, p, <<>>, <<>>)
    /\ UNCHANGED <<path_kind, pending, out, err, run, first>>

\* The loop over node.children(): the recursive call on the next child.
Descend ==
    /\ pc = "walk"
    /\ stack # <<>>
    /\ LET top == stack[Len(stack)]
           cs == Children(tree, top.node)
       IN  /\ top.next <= Len(cs)
           /\ CallFind(tree, cs[top.next], path,
                       [stack EXCEPT ![Len(stack)].next = top.next + 1],
                       visited)
    /\ UNCHANGED <<path_kind, entries, path, tree, pending, out, err,
                   expected, run, disk, first>>

\* The loop over the children is over: find_function_stats returns.
Return ==
    /\ pc = "walk"
    /\ stack # <<>>
    /\ LET top == stack[Len(stack)]
       IN  top.next > Len(Children(tree, top.node))
    /\ stack' = SubSeq(stack, 1, Len(stack) - 1)
    /\ IF Len(stack) = 1
       THEN \* back in parse_file: the tree is dropped
            /\ pc' = "scan"
            /\ path' = NoPath
            /\ tree' = <<>>
            /\ visited' = <<>>
       ELSE /\ pc' = "walk"
            /\ UNCHANGED <<path, tree, visited>>
    /\ UNCHANGED <<path_kind, entries, function_stats, pending, out, err,
                   expected, run, disk, first>>

\* The file loop is over: function_stats is moved into the report loop.
FinishScan ==
    /\ pc = "scan"
    /\ entries = {}
    /\ pc' = "report"
    /\ pending' = DOMAIN function_stats
    /\ UNCHANGED <<path_kind, entries, function_stats, path, tree, stack,
                   out, err, visited, expected, run, disk, first>>

\* One iteration of `for (function_name, stats) in function_stats`.
ReportOne(name) ==
    /\ pc = "report"
    /\ name \in pending
    /\ pending' = pending \ {name}
    /\ out' = out \o ReportLines(name, function_stats[name])
    /\ UNCHANGED <<path_kind, entries, function_stats, pc, path, tree, stack,
                   err, visited, expected, run, disk, first>>

\* The report loop is over: main returns.
FinishReport ==
    /\ pc = "report"
    /\ pending = {}
    /\ pc' = "done"
    /\ UNCHANGED <<path_kind, entries, function_stats, path, tree, stack,
                   pending, out, err, visited, expected, run, disk, first>>

\* The program is started again on the same path, the files unchanged.
Rerun ==
    /\ pc = "done"
    /\ run = 1
    /\ run' = 2
    /\ first' = [stats |-> function_stats, out |-> out]
    /\ entries' = EntriesOf(path_kind)
    /\ function_stats' = NoStats
    /\ pc' = "start"
    /\ path' = NoPath
    /\ tree' = <<>>
    /\ stack' = <<>>
    /\ pending' = {}
    /\ out' = <<>>
    /\ err' = <<>>
    /\ visited' = <<>>
    /\ expected' = NoExpected
    /\ UNCHANGED <<path_kind, disk>>

TreesFor(kind) == IF kind = "file" THEN FileTrees ELSE DirTrees

Unreadable == [status |-> "unreadable", tree |-> <<>>]
Unparsable == [status |-> "unparsable", tree |-> <<>>]
Parsed(t) == [status |-> "ok", tree |-> t]

ReadAs(p, c, keep) ==
    /\ \/ ReadFails(p, c)
       \/ ParseFails(p, c)
       \/ WalkFile(p, c)
    /\ disk' = IF p \in DOMAIN disk THEN disk
               ELSE disk @@ (p :> IF keep THEN c
                                   ELSE [status |-> c.status, tree |-> <<>>])

\* A file is read for the first time: what it holds is an input.
ReadNew(keep) ==
    \E p \in entries :
        /\ p \notin DOMAIN disk
        /\ \/ ReadAs(p, Unreadable, keep)
           \/ ReadAs(p, Unparsable, keep)
           \/ \E n \in DOMAIN TreesFor(path_kind) :
                 \E t \in TreesFor(path_kind)[n] : ReadAs(p, Parsed(t), keep)

\* The same, when the tree provider may hand out spans that do not decode.
ReadNewRaw ==
    \E p \in entries :
        \/ ReadAs(p, Unreadable, FALSE)
        \/ ReadAs(p, Unparsable, FALSE)
        \/ \E n \in DOMAIN TreesFor(path_kind) :
              \E t \in TreesFor(path_kind)[n] :
                 \E bad \in SUBSET (2..n) :
                    ReadAs(p, Parsed(Corrupt(t, bad)), FALSE)

\* A file is read again and holds what it held.
ReadAgain ==
    \E p \in entries :
        /\ p \in DOMAIN disk
        /\ ReadAs(p, disk[p], TRUE)

Steps ==
    \/ Start
    \/ \E p \in entries : SkipEntry(p)
    \/ Descend
    \/ Return
    \/ FinishScan
    \/ \E name \in pending : ReportOne(name)
    \/ FinishReport

Next == Steps \/ ReadNew(FALSE)

Spec == Init /\ [][Next]_vars

\* The tree provider may hand out spans that do not decode.
NextRaw == Steps \/ ReadNewRaw

SpecRaw == Init /\ [][NextRaw]_vars

\* Two runs over the same files.
NextTwice == Steps \/ ReadNew(TRUE) \/ ReadAgain \/ Rerun

SpecTwice == Init /\ [][NextTwice]_vars

\* The program is sequential and every step of it terminates.
LiveSpec == Init /\ [][Next]_vars /\ WF_vars(Next)

\* ================================================================== claims
Range(s) == {s[i] : i \in 1..Len(s)}
BagOfSeq(s) == [x \in Range(s) |-> Cardinality({i \in 1..Len(s) : s[i] = x})]
LinesOf(o, cat, name) ==
    {i \in 1..Len(o) : o[i].category = cat /\ o[i].name = name}
Reported(o, cat) == {o[i].name : i \in {j \in 1..Len(o) : o[j].category = cat}}
Matched(t, n) == t[n].kind \in {"function_declarator", "call_expression"}

\* C1: whatever was recorded under `main`, no heading of the report, in
\* either category, names `main`.
C1_MainNeverReported == \A i \in 1..Len(out) : out[i].name # "main"

\* `main` is in the registry with one declaration and no call, so that both
\* rules would fire for it, and another name has been reported.
C1_Witness ==
    /\ pc = "done"
    /\ "main" \in DOMAIN function_stats
    /\ function_stats["main"].calls = <<>>
    /\ Len(function_stats["main"].declarations) = 1
    /\ out # <<>>

\* C2: at the end of the run a name other than `main` has an Unused heading
\* exactly when its calls are empty; there is one such heading, it lists the
\* declarations in sequence order, and they are at least one.
C2_UnusedIffNoCalls ==
    pc = "done" =>
        /\ Reported(out, "Unused") \subseteq DOMAIN function_stats
        /\ \A name \in DOMAIN function_stats \ {"main"} :
              LET st == function_stats[name]
                  ls == LinesOf(out, "Unused", name)
              IN  /\ (st.calls = <<>>) <=> (ls # {})
                  /\ Cardinality(ls) <= 1
                  /\ \A i \in ls :
                        /\ out[i].positions = st.declarations
                        /\ Len(st.declarations) >= 1
                        /\ Len(st.calls) = 0

\* A name declared in both files and never called: two positions listed,
\* while another name was called and is not listed as unused.
C2_Witness ==
    /\ pc = "done"
    /\ \E i \in 1..Len(out) :
          /\ out[i].category = "Unused"
          /\ Len(out[i].positions) = 2
          /\ out[i].positions[1][1] # out[i].positions[2][1]

\* C3: at the end of the run a name other than `main` has an Undeclared
\* heading exactly when it has fewer than two declarations, whatever its
\* calls and whether or not it is also listed as unused; the heading lists
\* its zero or one declarations.
C3_UndeclaredIffFewerThanTwo ==
    pc = "done" =>
        /\ Reported(out, "Undeclared") \subseteq DOMAIN function_stats
        /\ \A name \in DOMAIN function_stats \ {"main"} :
              LET st == function_stats[name]
                  ls == LinesOf(out, "Undeclared", name)
              IN  /\ (Len(st.declarations) < 2) <=> (ls # {})
                  /\ Cardinality(ls) <= 1
                  /\ \A i \in ls :
                        /\ out[i].positions = st.declarations
                        /\ Len(out[i].positions) <= 1

\* A name that was only called is listed with no position.
C3_Witness ==
    /\ pc = "done"
    /\ \E i \in 1..Len(out) :
          /\ out[i].category = "Undeclared"
          /\ out[i].positions = <<>>
          /\ function_stats[out[i].name].calls # <<>>

\* C4: the registry starts empty, and every key of it has at least one
\* declaration or call.
C4_KeyHasSite ==
    /\ pc = "start" => DOMAIN function_stats = {}
    /\ \A name \in DOMAIN function_stats :
          Len(function_stats[name].declarations)
              + Len(function_stats[name].calls) >= 1

\* In the middle of a walk both names are keys, one of them through a call
\* only.
C4_Witness ==
    /\ pc = "walk"
    /\ DOMAIN function_stats = Names
    /\ \E name \in Names : function_stats[name].declarations = <<>>

\* C5: while a file is walked the nodes entered so far are an initial part
\* of the pre-order of its tree, each entered once and each one's site
\* recorded if it has one; when the call on the root is about to return,
\* they are the whole pre-order, every node of the tree once.
C5_WalkIsPreorder ==
    pc = "walk" =>
        LET pre == Preorder(tree, 1)
        IN  /\ Len(visited) <= Len(pre)
            /\ visited = SubSeq(pre, 1, Len(visited))
            /\ \A i, j \in 1..Len(visited) : visited[i] = visited[j] => i = j
            /\ \A name \in Names :
                  /\ {SiteOf(path, ChildByFieldName(tree, n, "declarator")) :
                        n \in DeclNodes(tree, name) \cap Range(visited)}
                       \subseteq (IF name \in DOMAIN function_stats
                                  THEN Range(function_stats[name].declarations)
                                  ELSE {})
                  /\ {SiteOf(path, ChildByFieldName(tree, n, "function")) :
                        n \in CallNodes(tree, name) \cap Range(visited)}
                       \subseteq (IF name \in DOMAIN function_stats
                                  THEN Range(function_stats[name].calls)
                                  ELSE {})
            /\ (Len(stack) = 1 /\ stack[1].next > Len(tree[1].children)) =>
                  /\ visited = pre
                  /\ Range(visited) = 1..Len(tree)
                  /\ Len(visited) = Len(tree)

\* The call on the root is about to return in a tree where a matched node
\* has a child and a later sibling.
C5_Witness ==
    /\ pc = "walk"
    /\ Len(stack) = 1
    /\ stack[1].next > Len(tree[1].children)
    /\ Len(tree[1].children) = 2
    /\ \E n \in 2..Len(tree) : Matched(tree, n) /\ tree[n].children # <<>>

\* C6: once the files are processed, each name's declarations are the sites
\* of the function-declarator nodes naming it, one each, and its calls the
\* sites of the call-expression nodes calling it, one each, over all the
\* files walked; a name with a call is not listed as unused.
C6_SitesAreTheNodes ==
    pc \in {"report", "done"} =>
        \A name \in Names :
            IF name \in DOMAIN function_stats
            THEN LET st == function_stats[name]
                 IN  /\ Range(st.declarations) = expected[name].declarations
                     /\ Len(st.declarations)
                            = Cardinality(expected[name].declarations)
                     /\ Range(st.calls) = expected[name].calls
                     /\ Len(st.calls) = Cardinality(expected[name].calls)
                     /\ (pc = "done" /\ st.calls # <<>>) =>
                            LinesOf(out, "Unused", name) = {}
            ELSE /\ expected[name].declarations = {}
                 /\ expected[name].calls = {}

\* `foo` is declared in one file and called in the other.
C6_Witness ==
    /\ pc = "done"
    /\ "foo" \in DOMAIN function_stats
    /\ Len(function_stats["foo"].declarations) = 1
    /\ Len(function_stats["foo"].calls) = 1
    /\ function_stats["foo"].declarations[1][1]
          # function_stats["foo"].calls[1][1]

\* C7: a step that takes a source file which cannot be read or does not
\* parse leaves the registry as it was, adds one diagnostic naming the file,
\* and leaves the run in the file loop with the other files still to come.
C7_FailedFileSkipped ==
    [][\A p \in entries :
          (p \notin entries' /\ p \in DOMAIN disk' /\ disk'[p].status # "ok")
              => /\ function_stats' = function_stats
                 /\ Len(err') = Len(err) + 1
                 /\ err'[Len(err')].path = p
                 /\ pc' = "scan"
                 /\ entries' = entries \ {p}]_vars

\* A file is walked, and adds to the registry, after another one failed.
C7_Witness ==
    /\ pc = "walk"
    /\ err # <<>>
    /\ function_stats # NoStats

ExtractionFails(t, n) ==
    \/ /\ t[n].kind = "function_declarator"
       /\ \/ ChildByFieldName(t, n, "declarator") = NoNode
          \/ ~Utf8Ok(t, ChildByFieldName(t, n, "declarator"))
    \/ /\ t[n].kind = "call_expression"
       /\ \/ ChildByFieldName(t, n, "function") = NoNode
          \/ ~Utf8Ok(t, ChildByFieldName(t, n, "function"))

\* C8: entering a function-declarator or call-expression node whose field is
\* absent, or whose field's text does not decode, leaves the registry as it
\* was and the walk goes on with the node's children.
C8_ExtractionFailureSkipped ==
    [][(/\ Len(visited') = Len(visited) + 1
        /\ ExtractionFails(tree', visited'[Len(visited')]))
          => /\ function_stats' = function_stats
             /\ pc' = "walk"
             /\ stack' # <<>>
             /\ stack'[Len(stack')] =
                   [node |-> visited'[Len(visited')], next |-> 1]]_vars

\* C9: the run ends; the report starts only when no file is left and no
\* walk is active, reads a registry that no longer changes, and ends with
\* every key visited.
C9_RunCompletes ==
    /\ <>(pc = "done")
    /\ [](pc \in {"report", "done"} => entries = {} /\ stack = <<>>)
    /\ [](pc = "done" => pending = {})
    /\ [][(pc \in {"report", "done"}) => (function_stats' = function_stats)]_vars

\* The run has ended with findings although a file could not be read or
\* parsed.
C9_Witness ==
    /\ pc = "done"
    /\ err # <<>>
    /\ out # <<>>
    /\ path_kind = "dir"

\* C10: a second run over the same files ends with the same keys, the same
\* declarations and calls for each key as collections, and the same names
\* listed in each category.
C10_SameUpToOrder ==
    (run = 2 /\ pc = "done") =>
        /\ DOMAIN function_stats = DOMAIN first.stats
        /\ \A name \in DOMAIN function_stats :
              /\ BagOfSeq(function_stats[name].declarations)
                    = BagOfSeq(first.stats[name].declarations)
              /\ BagOfSeq(function_stats[name].calls)
                    = BagOfSeq(first.stats[name].calls)
        /\ Reported(out, "Unused") = Reported(first.out, "Unused")
        /\ Reported(out, "Undeclared") = Reported(first.out, "Undeclared")

\* The second run took the files in the other order: a sequence differs.
C10_Witness ==
    /\ path_kind = "dir"
    /\ run = 2
    /\ pc = "done"
    /\ function_stats # first.stats
    /\ out # <<>>

====
